---- MODULE Spec2Model ----
(***************************************************************************)
(* Model of pwninit's solve-script stub writer (src/solvepy.rs):           *)
(* make_stub() resolves and renders a handlebars template, write_stub()    *)
(* writes the result to solve.py unless that file already exists and then  *)
(* marks it executable.                                                    *)
(*                                                                         *)
(* Strings are sequences of one-character strings; byte strings and paths  *)
(* may additionally hold BadByte, a byte that is not valid UTF-8.          *)
(***************************************************************************)
EXTENDS Integers, Sequences, FiniteSets, TLC

\* Number of write_stub invocations modelled (sequential calls in Spec,
\* concurrent processes in SpecRace).
MaxCalls == 2

Calls == 1..MaxCalls

----------------------------------------------------------------------------
\* Option<T>
None == [some |-> FALSE, v |-> <<>>]
Some(x) == [some |-> TRUE, v |-> x]

\* A byte that makes a byte string / OsStr invalid UTF-8.
BadByte == "0xFF"

S_exe == <<"e", "x", "e">>
S_libc == <<"l", "i", "b", "c">>
S_ld == <<"l", "d">>
S_bin == <<"b", "i", "n">>

\* The line printed by println!("{}", "writing solve.py stub".cyan().bold())
StatusLine == "writing solve.py stub"

\* The Error enum's variants.
ErrorKinds ==
    {"Utf8Error", "WriteError", "ReadError", "TmplError", "RenderError", "SetExecError"}

----------------------------------------------------------------------------
\* Pure helpers of make_stub

\* String::from_utf8(data): Err on a byte sequence that is not valid UTF-8.
from_utf8(data) ==
    IF \E k \in 1..Len(data) : data[k] = BadByte
    THEN [ok |-> FALSE, val |-> <<>>]
    ELSE [ok |-> TRUE, val |-> data]

\* Path::to_str(): None when the path is not valid Unicode.
to_str(path) ==
    IF \E k \in 1..Len(path) : path[k] = BadByte THEN None ELSE Some(path)

\* match opts.X.as_ref() { Some(p) => p.to_str().unwrap().to_string(),
\*                         None => "".to_string() }
\* unwrap() of None panics.
PathString(optPath) ==
    IF ~optPath.some THEN [panic |-> FALSE, val |-> <<>>]
    ELSE LET s == to_str(optPath.v)
         IN IF s.some THEN [panic |-> FALSE, val |-> s.v]
                      ELSE [panic |-> TRUE, val |-> <<>>]

\* Faulty variant of Bindings: the two fields swapped.
BindingsSwapped(exe, libc) == (S_exe :> libc) @@ (S_libc :> exe)

\* Bindings { exe, libc }, serialized by serde into the render context.
Bindings(exe, libc) == (S_exe :> exe) @@ (S_libc :> libc)

----------------------------------------------------------------------------
\* The handlebars engine as make_stub uses it: Handlebars::new() (non-strict
\* mode, default HTML escaping), one template registered under "solve".
\* The grammar modelled is the subset {{name}} (variable) and {{>name}}
\* (partial) between raw text.

NameChars == {"e", "x", "l", "i", "b", "c", "d", "n", "p"}

IsOpen(s, k) == k + 1 <= Len(s) /\ s[k] = "{" /\ s[k + 1] = "{"

\* Index of the first "}}" at or after k, 0 when there is none.
CloseAt(s, k) ==
    LET C == {j \in k..(Len(s) - 1) : s[j] = "}" /\ s[j + 1] = "}"}
    IN IF C = {} THEN 0 ELSE CHOOSE j \in C : \A j2 \in C : j <= j2

IsName(body) == Len(body) > 0 /\ \A k \in 1..Len(body) : body[k] \in NameChars

\* One {{...}} expression: [ok, tok].
ParseExpr(body) ==
    IF IsName(body) THEN [ok |-> TRUE, tok |-> [kind |-> "var", name |-> body]]
    ELSE IF Len(body) > 1 /\ body[1] = ">" /\ IsName(Tail(body))
    THEN [ok |-> TRUE, tok |-> [kind |-> "partial", name |-> Tail(body)]]
    ELSE [ok |-> FALSE, tok |-> [kind |-> "raw", name |-> <<>>]]

RECURSIVE ParseFrom(_, _)
ParseFrom(s, k) ==
    IF k > Len(s) THEN [ok |-> TRUE, toks |-> <<>>]
    ELSE IF IsOpen(s, k)
    THEN LET c == CloseAt(s, k + 2)
         IN IF c = 0 THEN [ok |-> FALSE, toks |-> <<>>]
            ELSE LET e == ParseExpr(SubSeq(s, k + 2, c - 1))
                     rest == ParseFrom(s, c + 2)
                 IN IF e.ok /\ rest.ok
                    THEN [ok |-> TRUE, toks |-> <<e.tok>> \o rest.toks]
                    ELSE [ok |-> FALSE, toks |-> <<>>]
    ELSE LET rest == ParseFrom(s, k + 1)
         IN IF rest.ok
            THEN [ok |-> TRUE,
                  toks |-> <<[kind |-> "raw", name |-> <<s[k]>>]>> \o rest.toks]
            ELSE rest

\* handlebars.register_template_string("solve", templ): Err(TemplateError)
\* on malformed syntax, else the compiled template.
register_template_string(templ) == ParseFrom(templ, 1)

\* The engine's default escape function, applied to every {{name}} value.
EscapeChar(c) ==
    CASE c = "&" -> <<"&", "a", "m", "p", ";">>
      [] c = "<" -> <<"&", "l", "t", ";">>
      [] c = ">" -> <<"&", "g", "t", ";">>
      [] c = "\"" -> <<"&", "q", "u", "o", "t", ";">>
      [] OTHER -> <<c>>

RECURSIVE html_escape(_)
html_escape(s) ==
    IF s = <<>> THEN <<>> ELSE EscapeChar(Head(s)) \o html_escape(Tail(s))

\* handlebars.render("solve", &mapping): a variable the context does not
\* define renders as the empty string (non-strict mode); a partial that was
\* never registered is a RenderError.
RECURSIVE render(_, _)
render(toks, mapping) ==
    IF toks = <<>> THEN [ok |-> TRUE, val |-> <<>>]
    ELSE LET t == Head(toks)
             rest == render(Tail(toks), mapping)
         IN IF t.kind = "partial" \/ ~rest.ok THEN [ok |-> FALSE, val |-> <<>>]
            ELSE IF t.kind = "raw" THEN [ok |-> TRUE, val |-> t.name \o rest.val]
            ELSE IF t.name \in DOMAIN mapping
            THEN [ok |-> TRUE, val |-> html_escape(mapping[t.name]) \o rest.val]
            ELSE [ok |-> TRUE, val |-> rest.val]

\* include_str!("template.py"): the packaged default template.
BuiltinTemplate ==
    <<"e", "=", "{", "{", "e", "x", "e", "}", "}", ";",
      "l", "=", "{", "{", "l", "i", "b", "c", "}", "}">>

\* Faulty variant of Try: the error is dropped and control goes on.
TryIgnoreErr(ok, kind, next) == [pc |-> next, result |-> "none"]

\* The `?` after .context(Kind): on Err the function returns Err(Kind) at once,
\* on Ok control goes on to the next stage.
Try(ok, kind, next) ==
    IF ok THEN [pc |-> next, result |-> "none"]
          ELSE [pc |-> "done", result |-> kind]

\* make_stub as a function of the configuration and the template file:
\* [kind |-> "Ok" | an error kind | "panic", val |-> the rendered script].
make_stub(o, tf) ==
    LET rd == IF o.template_path.some
              THEN IF tf.readable THEN [kind |-> "Ok", data |-> tf.bytes]
                                  ELSE [kind |-> "ReadError", data |-> <<>>]
              ELSE [kind |-> "Ok", data |-> BuiltinTemplate]
        dec == IF o.template_path.some THEN from_utf8(rd.data)
                                       ELSE [ok |-> TRUE, val |-> BuiltinTemplate]
        exe == PathString(o.bin)
        libc == PathString(o.libc)
        reg == register_template_string(dec.val)
        out == render(reg.toks, Bindings(exe.val, libc.val))
    IN IF rd.kind # "Ok" THEN [kind |-> "ReadError", val |-> <<>>]
       ELSE IF ~dec.ok THEN [kind |-> "Utf8Error", val |-> <<>>]
       ELSE IF exe.panic \/ libc.panic THEN [kind |-> "panic", val |-> <<>>]
       ELSE IF ~reg.ok THEN [kind |-> "TmplError", val |-> <<>>]
       ELSE IF ~out.ok THEN [kind |-> "RenderError", val |-> <<>>]
       ELSE [kind |-> "Ok", val |-> out.val]

----------------------------------------------------------------------------
\* The filesystem primitives write_stub calls on solve.py.
\* A file: [exists, content, exec, mtime]; mtime counts the modifications of
\* the content.

NoFile == [exists |-> FALSE, content |-> <<>>, exec |-> FALSE, mtime |-> 0]

\* Faulty variant of path_exists: a path that is never there.
path_exists_never(f) == FALSE

\* Path::new("solve.py").exists()
path_exists(f) == f.exists

\* Faulty variant of ShouldWrite: the negation lost.
ShouldWriteInverted(exists) == exists

\* if !path.exists() { ... }
ShouldWrite(exists) == ~exists

\* fs::write(&path, stub) = File::create (create or truncate) + write_all.
\* A file that is created gets no execute bit; one that is truncated keeps
\* its permissions. The environment chooses the outcome: "ok", "create_failed"
\* (nothing changed on disk) or "write_failed" (created or truncated, the
\* data not written).
WriteOutcomes == {"ok", "create_failed", "write_failed"}

\* Variant of fs_write that refuses an existing file (create_new).
fs_write_create_new(f, data, outcome) ==
    IF outcome = "create_failed" \/ f.exists THEN [ok |-> FALSE, file |-> f]
    ELSE [ok |-> outcome = "ok",
          file |-> [exists |-> TRUE,
                    content |-> IF outcome = "ok" THEN data ELSE <<>>,
                    exec |-> FALSE,
                    mtime |-> f.mtime + 1]]

\* Faulty variant of fs_write: the file comes out executable.
fs_write_executable(f, data, outcome) ==
    IF outcome = "create_failed" THEN [ok |-> FALSE, file |-> f]
    ELSE [ok |-> outcome = "ok",
          file |-> [exists |-> TRUE,
                    content |-> IF outcome = "ok" THEN data ELSE <<>>,
                    exec |-> TRUE,
                    mtime |-> f.mtime + 1]]

fs_write(f, data, outcome) ==
    IF outcome = "create_failed" THEN [ok |-> FALSE, file |-> f]
    ELSE [ok |-> outcome = "ok",
          file |-> [exists |-> TRUE,
                    content |-> IF outcome = "ok" THEN data ELSE <<>>,
                    exec |-> IF f.exists THEN f.exec ELSE FALSE,
                    mtime |-> f.mtime + 1]]

\* set_exec(&path): turns the execute bits on; on an I/O fault the
\* permissions stay as they were.
ExecOutcomes == {"ok", "failed"}

set_exec(f, outcome) ==
    IF outcome = "ok" THEN [ok |-> TRUE, file |-> [f EXCEPT !.exec = TRUE]]
                      ELSE [ok |-> FALSE, file |-> f]

\* Faulty variant of println: nothing is printed.
println_nothing(out) == out

\* println!("{}", "writing solve.py stub".cyan().bold())
println(out) == Append(out, StatusLine)

\* Faulty variant of AfterWrite: the set_exec call left out.
AfterWriteReturn == "ret"

\* The statement after a successful fs::write.
AfterWrite == "setexec"

----------------------------------------------------------------------------
\* Configurations and environments explored.

P_a == <<"/", "a">>
P_b == <<"/", "b">>
P_l == <<"/", "l">>
P_amp == <<"&">>
P_bad == <<BadByte>>
P_tmpl == <<"t">>

T_round == <<"{", "{", "e", "x", "e", "}", "}", "-",
             "{", "{", "l", "i", "b", "c", "}", "}">>
T_unclosed == <<"{", "{", "e", "x", "e">>
T_partial == <<"{", "{", ">", "p", "}", "}">>
T_other == <<"{", "{", "l", "d", "}", "}", "{", "{", "b", "i", "n", "}", "}", "x">>

\* The three template_*_name strings, varied together.
NameSets == {<<S_exe, S_libc, S_ld>>, <<S_bin, S_exe, S_libc>>}

OptsSet ==
    {[bin |-> b, libc |-> l, ld |-> d, template_path |-> t,
      template_bin_name |-> n[1], template_libc_name |-> n[2],
      template_ld_name |-> n[3]] :
        b \in {None, Some(P_a), Some(P_amp), Some(P_bad)},
        l \in {None, Some(P_b), Some(P_bad)},
        d \in {None, Some(P_l)},
        t \in {None, Some(P_tmpl)},
        n \in NameSets}

\* The file at opts.template_path: unreadable, or its bytes.
TemplateFiles ==
    {[readable |-> FALSE, bytes |-> <<>>]} \cup
    {[readable |-> TRUE, bytes |-> b] :
        b \in {P_bad, T_unclosed, T_partial, T_round, T_other}}

\* solve.py before the first invocation: absent, or a file the user made.
UserContent == <<"#">>

InitialFiles ==
    {NoFile} \cup
    {[exists |-> TRUE, content |-> UserContent, exec |-> x, mtime |-> 0] :
        x \in BOOLEAN}

----------------------------------------------------------------------------
VARIABLES
    opts,       \* the Opts the invocations are given
    tmplFile,   \* the file at opts.template_path
    file,       \* solve.py in the current directory
    stdout,     \* the lines printed so far
    nwrites,    \* number of fs::write calls that returned Ok
    pc,         \* pc[i]: the stage invocation i is at
    result,     \* result[i]: "none", "Ok", an Error kind or "panic"
    loc,        \* loc[i]: the locals of make_stub / write_stub
    h           \* h[i]: what invocation i saw and did (history)

vars == <<opts, tmplFile, file, stdout, nwrites, pc, result, loc, h>>

Snap(f, out, nw) == [file |-> f, out |-> Len(out), nw |-> nw]

NoLoc == [data |-> <<>>, templ |-> <<>>, exe |-> <<>>, libc |-> <<>>,
          toks |-> <<>>, mapping |-> <<>>, stub |-> <<>>]

NoHist == [entry |-> Snap(NoFile, <<>>, 0), exit |-> Snap(NoFile, <<>>, 0),
           saw |-> "none", wout |-> "none", xout |-> "none", trace |-> <<>>]

Init ==
    /\ opts \in OptsSet
    /\ tmplFile \in TemplateFiles
    /\ ~opts.template_path.some => tmplFile = [readable |-> FALSE, bytes |-> <<>>]
    /\ file \in InitialFiles
    /\ stdout = <<>>
    /\ nwrites = 0
    /\ pc = [i \in Calls |-> "idle"]
    /\ result = [i \in Calls |-> "none"]
    /\ loc = [i \in Calls |-> NoLoc]
    /\ h = [i \in Calls |-> NoHist]

\* `Ok(())` / `Ok(stub)`: reaching the end of the function returns success.
Finish(t) == IF t.pc = "ret" THEN [pc |-> "done", result |-> "Ok"] ELSE t

\* Invocation i runs `stage` and goes where t says, leaving the given locals,
\* file, output and history.
Advance(i, stage, t, newLoc, newFile, newOut, newNw, hist) ==
    LET f == Finish(t)
    IN /\ pc' = [pc EXCEPT ![i] = f.pc]
       /\ result' = [result EXCEPT ![i] = f.result]
       /\ loc' = [loc EXCEPT ![i] = newLoc]
       /\ file' = newFile
       /\ stdout' = newOut
       /\ nwrites' = newNw
       /\ h' = [h EXCEPT ![i] =
                  [hist EXCEPT !.trace = Append(@, stage),
                               !.exit = IF f.pc = "done"
                                        THEN Snap(newFile, newOut, newNw) ELSE @]]
       /\ UNCHANGED <<opts, tmplFile>>

\* write_stub(opts) is entered; make_stub starts with the match on
\* opts.template_path, whose None arm takes the built-in template.
Call(i) ==
    /\ pc[i] = "idle"
    /\ pc' = [pc EXCEPT ![i] = IF opts.template_path.some THEN "read" ELSE "bind"]
    /\ loc' = [loc EXCEPT ![i].templ =
                 IF opts.template_path.some THEN <<>> ELSE BuiltinTemplate]
    /\ h' = [h EXCEPT ![i].entry = Snap(file, stdout, nwrites)]
    /\ UNCHANGED <<opts, tmplFile, file, stdout, nwrites, result>>

\* A call of a sequence of calls: the ones before it have returned.
CallSeq(i) ==
    /\ \A j \in Calls : j < i => pc[j] = "done"
    /\ Call(i)

\* let data = fs::read(path).context(ReadError)?;
ReadTemplate(i) ==
    /\ pc[i] = "read"
    /\ Advance(i, "read", Try(tmplFile.readable, "ReadError", "decode"),
               [loc[i] EXCEPT !.data = IF tmplFile.readable THEN tmplFile.bytes ELSE <<>>],
               file, stdout, nwrites, h[i])

\* String::from_utf8(data).context(Utf8Error)?
DecodeTemplate(i) ==
    /\ pc[i] = "decode"
    /\ LET r == from_utf8(loc[i].data)
       IN Advance(i, "decode", Try(r.ok, "Utf8Error", "bind"),
                  [loc[i] EXCEPT !.templ = r.val], file, stdout, nwrites, h[i])

\* let exe = ...; let libc = ...;  (to_str().unwrap() panics on a path that
\* is not valid Unicode)
Bind(i) ==
    /\ pc[i] = "bind"
    /\ LET e == PathString(opts.bin)
           l == PathString(opts.libc)
       IN Advance(i, "bind",
                  IF e.panic \/ l.panic THEN [pc |-> "done", result |-> "panic"]
                                        ELSE [pc |-> "register", result |-> "none"],
                  [loc[i] EXCEPT !.exe = e.val, !.libc = l.val],
                  file, stdout, nwrites, h[i])

\* handlebars.register_template_string("solve", templ.to_owned()).context(TmplError)?;
Register(i) ==
    /\ pc[i] = "register"
    /\ LET r == register_template_string(loc[i].templ)
       IN Advance(i, "register", Try(r.ok, "TmplError", "render"),
                  [loc[i] EXCEPT !.toks = r.toks], file, stdout, nwrites, h[i])

\* let mapping = Bindings { exe, libc };
\* Ok(handlebars.render("solve", &mapping).context(RenderError)?)
\* and, back in write_stub, `let stub = make_stub(opts)?;`
Render(i) ==
    /\ pc[i] = "render"
    /\ LET m == Bindings(loc[i].exe, loc[i].libc)
           r == render(loc[i].toks, m)
       IN Advance(i, "render", Try(r.ok, "RenderError", "exists"),
                  [loc[i] EXCEPT !.mapping = m, !.stub = r.val],
                  file, stdout, nwrites, h[i])

\* if !path.exists() { ... } Ok(())
ExistsCheck(i) ==
    /\ pc[i] = "exists"
    /\ LET e == path_exists(file)
       IN Advance(i, "exists",
                  [pc |-> IF ShouldWrite(e) THEN "print" ELSE "ret", result |-> "none"],
                  loc[i], file, stdout, nwrites,
                  [h[i] EXCEPT !.saw = IF e THEN "present" ELSE "absent"])

\* println!("{}", "writing solve.py stub".cyan().bold());
PrintStatus(i) ==
    /\ pc[i] = "print"
    /\ Advance(i, "print", [pc |-> "write", result |-> "none"],
               loc[i], file, println(stdout), nwrites, h[i])

\* fs::write(&path, stub).context(WriteError)?;
WriteFile(i) ==
    /\ pc[i] = "write"
    /\ \E outcome \in WriteOutcomes :
         LET w == fs_write(file, loc[i].stub, outcome)
         IN Advance(i, "write", Try(w.ok, "WriteError", AfterWrite),
                    loc[i], w.file, stdout,
                    IF w.ok THEN nwrites + 1 ELSE nwrites,
                    [h[i] EXCEPT !.wout = outcome])

\* set_exec(&path).context(SetExecError)?;  then Ok(())
SetExec(i) ==
    /\ pc[i] = "setexec"
    /\ \E outcome \in ExecOutcomes :
         LET x == set_exec(file, outcome)
         IN Advance(i, "setexec", Try(x.ok, "SetExecError", "ret"),
                    loc[i], x.file, stdout, nwrites,
                    [h[i] EXCEPT !.xout = outcome])

Stage(i) ==
    \/ ReadTemplate(i)
    \/ DecodeTemplate(i)
    \/ Bind(i)
    \/ Register(i)
    \/ Render(i)
    \/ ExistsCheck(i)
    \/ PrintStatus(i)
    \/ WriteFile(i)
    \/ SetExec(i)

\* write_stub called MaxCalls times, one call after the other.
Next == \E i \in Calls : CallSeq(i) \/ Stage(i)

Spec == Init /\ [][Next]_vars

\* MaxCalls processes, each calling write_stub once, in the same directory,
\* solve.py absent at the start.
InitRace ==
    /\ Init
    /\ file = NoFile
    /\ opts.ld = None
    /\ opts.template_bin_name = S_exe

NextRace == \E i \in Calls : Call(i) \/ Stage(i)

SpecRace == InitRace /\ [][NextRace]_vars

----------------------------------------------------------------------------
\* Vocabulary of the properties.

Done(i) == pc[i] = "done"

Started(i) == pc[i] # "idle"

InTrace(i, stage) == \E k \in 1..Len(h[i].trace) : h[i].trace[k] = stage

\* Lines invocation i had printed, and fs::write calls that had succeeded,
\* between its entry and its return.
Printed(i) == h[i].exit.out - h[i].entry.out

Written(i) == h[i].exit.nw - h[i].entry.nw

\* What make_stub computes for this configuration and template file.
Stub == make_stub(opts, tmplFile)

MakeStubErrors == {"ReadError", "Utf8Error", "TmplError", "RenderError"}

----------------------------------------------------------------------------
\* C1 (skip-on-exists): when solve.py exists at the time write_stub is
\* invoked, then during the invocation and at its return the file is exactly
\* as it was at entry (content, execute bit, modification count), nothing has
\* been printed and fs::write has not been called.
C1_SkipOnExists ==
    \A i \in Calls :
        (Started(i) /\ h[i].entry.file.exists) =>
            /\ h[i].wout = "none" /\ h[i].xout = "none"
            /\ ~InTrace(i, "print")
            /\ IF Done(i)
               THEN h[i].exit.file = h[i].entry.file /\ Printed(i) = 0
               ELSE file = h[i].entry.file /\ Len(stdout) = h[i].entry.out

C1_Witness ==
    \E i \in Calls :
        /\ Done(i) /\ result[i] = "Ok" /\ h[i].saw = "present"
        /\ h[i].entry.file.content = UserContent
        /\ h[i].entry.file.exec
        /\ file = h[i].entry.file

\* C2 (idempotence): of two calls in sequence, the first finding solve.py
\* absent and succeeding, the first performs exactly one write and the second
\* none; the second returns success and leaves the file (content, execute
\* bit, modification count) as the first left it.
C2_Idempotent ==
    \A i, j \in Calls :
        (i < j /\ Done(i) /\ Done(j)
           /\ ~h[i].entry.file.exists /\ result[i] = "Ok") =>
            /\ Written(i) = 1
            /\ h[j].exit.nw = h[i].exit.nw
            /\ h[j].exit.file = h[i].exit.file
            /\ h[j].exit.file.mtime = 1
            /\ result[j] = "Ok"

C2_Witness ==
    /\ Done(1) /\ Done(2)
    /\ ~h[1].entry.file.exists /\ result[1] = "Ok" /\ result[2] = "Ok"
    /\ opts.template_path.some
    /\ nwrites = 1 /\ file.content = loc[1].stub

\* C3 (no partial writes): when make_stub fails for the configuration, the
\* invocation returns exactly that error (or panics, for a path that is not
\* valid Unicode), and it never reaches the existence check, prints nothing
\* and leaves solve.py as it was: not created, not modified.
C3_NoPartialWrites ==
    \A i \in Calls :
        (Started(i) /\ Stub.kind # "Ok") =>
            /\ ~InTrace(i, "exists") /\ h[i].saw = "none"
            /\ ~InTrace(i, "print") /\ ~InTrace(i, "write") /\ ~InTrace(i, "setexec")
            /\ result[i] \in {"none", Stub.kind}
            /\ Done(i) =>
                 /\ result[i] = Stub.kind
                 /\ h[i].exit.file = h[i].entry.file
                 /\ Printed(i) = 0 /\ Written(i) = 0

C3_Witness ==
    \E i \in Calls :
        /\ Done(i) /\ result[i] = "Utf8Error"
        /\ ~file.exists /\ stdout = <<>>

\* C4 (executable bit set): when write_stub has returned success having found
\* solve.py absent, the file exists with the execute bit on and its content is
\* the rendered template, and the set_exec step has succeeded; success is never
\* returned after a write without a successful set_exec.
C4_ExecBitSet ==
    \A i \in Calls :
        (Done(i) /\ result[i] = "Ok") =>
            /\ h[i].wout # "none" => (h[i].wout = "ok" /\ h[i].xout = "ok")
            /\ h[i].saw = "absent" =>
                 /\ h[i].wout = "ok" /\ h[i].xout = "ok"
                 /\ h[i].exit.file.exists
                 /\ h[i].exit.file.exec
                 /\ h[i].exit.file.content = Stub.val
                 /\ loc[i].stub = Stub.val

C4_Witness ==
    \E i \in Calls :
        /\ Done(i) /\ result[i] = "Ok" /\ h[i].saw = "absent"
        /\ file.exec /\ file.content = Stub.val /\ Stub.val # <<>>

\* C5 as stated: whenever solve.py exists when write_stub is invoked, the
\* invocation detects it and returns success, whatever the configuration.
C5_AlwaysSuccessOnExisting ==
    \A i \in Calls :
        (Done(i) /\ h[i].entry.file.exists) =>
            (result[i] = "Ok" /\ h[i].saw = "present")

\* C5 (amended): when solve.py exists at the invocation, write_stub detects
\* it, skips the write and returns success provided make_stub succeeds; when
\* make_stub fails the invocation ends with that failure before the existence
\* check. Either way the file is left as it was.
C5_SuccessOnExistingIfStubOk ==
    \A i \in Calls :
        (Done(i) /\ h[i].entry.file.exists) =>
            /\ h[i].exit.file = h[i].entry.file
            /\ h[i].wout = "none"
            /\ IF Stub.kind = "Ok"
               THEN result[i] = "Ok" /\ h[i].saw = "present"
               ELSE result[i] = Stub.kind /\ h[i].saw = "none"

C5_Witness ==
    \E i \in Calls :
        /\ Done(i) /\ h[i].entry.file.exists
        /\ result[i] = "ReadError" /\ h[i].saw = "none"
        /\ file = h[i].entry.file

\* C6 as stated: an invocation prints exactly one status line when its write
\* of solve.py succeeds and none otherwise (skipped, or the write failed).
C6_StatusIffWritten ==
    \A i \in Calls :
        Done(i) => Printed(i) = (IF h[i].wout = "ok" THEN 1 ELSE 0)

\* C6 (amended): an invocation prints exactly one status line when it finds
\* solve.py absent at the existence check, before it attempts the write and
\* whether or not the write then succeeds, and none otherwise (file present,
\* or make_stub failed).
C6_StatusIffAbsent ==
    \A i \in Calls :
        /\ Done(i) => Printed(i) = (IF h[i].saw = "absent" THEN 1 ELSE 0)
        /\ InTrace(i, "write") =>
             \E k \in 1..(Len(h[i].trace) - 1) :
                 h[i].trace[k] = "print" /\ h[i].trace[k + 1] = "write"
        /\ (Done(i) /\ h[i].saw = "absent") => h[i].wout # "none"

C6_Witness ==
    \E i \in Calls :
        /\ Done(i) /\ result[i] = "WriteError" /\ h[i].wout = "create_failed"
        /\ Printed(i) = 1 /\ ~file.exists

\* The configuration with the fields the claim calls irrelevant erased.
ErasedOpts ==
    [opts EXCEPT !.ld = None, !.template_bin_name = S_exe,
                 !.template_libc_name = S_libc, !.template_ld_name = S_ld]

OptString(optPath) == IF optPath.some THEN optPath.v ELSE <<>>

ExecStepFailed(i) ==
    Done(i) /\ h[i].saw = "absent" /\ h[i].wout = "ok" /\ h[i].xout = "failed"

\* C8 (no rollback on permission failure): an invocation that finds solve.py
\* absent, writes it and fails in set_exec returns SetExecError and leaves the
\* file on disk with the rendered content and without the execute bit; every
\* later invocation finds the file, skips, returns success and never calls
\* set_exec, so the file stays non-executable.
C8_NoRollback ==
    \A i \in Calls :
        ExecStepFailed(i) =>
            /\ result[i] = "SetExecError"
            /\ h[i].exit.file.exists
            /\ h[i].exit.file.content = Stub.val
            /\ ~h[i].exit.file.exec
            /\ file = h[i].exit.file
            /\ \A j \in Calls :
                 (j > i /\ Started(j)) =>
                    /\ h[j].wout = "none" /\ h[j].xout = "none"
                    /\ result[j] \in {"none", "Ok"}
                    /\ Done(j) => (result[j] = "Ok" /\ h[j].saw = "present")

C8_Witness ==
    /\ ExecStepFailed(1) /\ result[1] = "SetExecError"
    /\ Done(2) /\ result[2] = "Ok" /\ h[2].saw = "present"
    /\ file.exists /\ ~file.exec /\ file.content = Stub.val

\* The invocations whose fs::write was not hit by an I/O fault.
Writers == {i \in Calls : h[i].wout = "ok"}

\* C9 (check-then-write race): nothing but an I/O fault stops a process that
\* saw solve.py absent from writing it, whatever has happened to the file
\* since: its write succeeds and counts, also over a file another process has
\* written meanwhile, and every process that saw the file absent prints its
\* status line.
C9_NoExclusion ==
    /\ \A i \in Calls :
         /\ h[i].wout = "ok" => (h[i].saw = "absent" /\ result[i] # "WriteError")
         /\ InTrace(i, "write") => h[i].saw = "absent"
    /\ nwrites = Cardinality(Writers)
    /\ Len(stdout) = Cardinality({i \in Calls : InTrace(i, "print")})
    /\ file.mtime >= nwrites

\* Both processes saw the file absent and both wrote it: two writes, two
\* status lines, the first write overwritten by the second.
C9_Witness ==
    /\ h[1].saw = "absent" /\ h[2].saw = "absent"
    /\ h[1].wout = "ok" /\ h[2].wout = "ok"
    /\ nwrites = 2 /\ Len(stdout) = 2 /\ file.mtime = 2

\* The stages in the order the claim gives them.
StageOrder ==
    <<"read", "decode", "bind", "register", "render", "exists", "write", "setexec">>

StageOfError ==
    [k \in ErrorKinds |->
        CASE k = "ReadError" -> "read"
          [] k = "Utf8Error" -> "decode"
          [] k = "TmplError" -> "register"
          [] k = "RenderError" -> "render"
          [] k = "WriteError" -> "write"
          [] k = "SetExecError" -> "setexec"]

IsNotPrint(stage) == stage # "print"

\* The stages invocation i has run, the status line aside.
Stages(i) == SelectSeq(h[i].trace, IsNotPrint)

LastStage(i) == Stages(i)[Len(Stages(i))]

\* C10 (stage order, first failure): the stages an invocation has run are a
\* contiguous run of the order read, decode, bind, register, render, exists,
\* write, setexec (from read with a custom template, from bind without), each
\* at most once; an invocation that returned an error returned the kind of the
\* last stage it ran, and that stage is the first one that fails; WriteError
\* and SetExecError only come after the file was seen absent.
C10_StageOrder ==
    \A i \in Calls :
        LET first == IF opts.template_path.some THEN 1 ELSE 3
            n == Len(Stages(i))
        IN /\ first + n - 1 <= Len(StageOrder)
           /\ Stages(i) = SubSeq(StageOrder, first, first + n - 1)
           /\ ~Done(i) => result[i] = "none"
           /\ Done(i) =>
                /\ result[i] \in ErrorKinds \cup {"Ok", "panic"}
                /\ result[i] \in ErrorKinds => LastStage(i) = StageOfError[result[i]]
                /\ result[i] = "panic" => LastStage(i) = "bind"
                /\ result[i] = "Ok" => LastStage(i) \in {"exists", "setexec"}
                /\ result[i] \in {"WriteError", "SetExecError"} => h[i].saw = "absent"
                /\ Stub.kind # "Ok" => result[i] = Stub.kind
                /\ (Stub.kind = "Ok" /\ h[i].wout \in {"create_failed", "write_failed"})
                      => result[i] = "WriteError"
                /\ (Stub.kind = "Ok" /\ h[i].xout = "failed") => result[i] = "SetExecError"

C10_Witness ==
    \E i \in Calls :
        /\ Done(i) /\ result[i] = "SetExecError"
        /\ Stages(i) = StageOrder

====
